---- MODULE Spec2Model ----
(***************************************************************************)
(* A model of the Aadhaar data reconciliation and scoring pipeline of      *)
(* src/analyzer.py: the chunk loader, the domain normaliser, the master    *)
(* merge with its derived columns, the health index and the MBU gap        *)
(* ranking.                                                                *)
(*                                                                         *)
(* Conventions.  A text is a sequence of one-character strings.  A cell    *)
(* that pandas may hold as missing (NaN / NaT) is an option: <<>> is the   *)
(* missing value and <<v>> holds v.  A table is a record                   *)
(* [cols |-> set of column names, rows |-> sequence of rows], a row being  *)
(* a function from the table's columns to cells.  A call that raises       *)
(* yields the value Raised(e) instead of a table.  Quotients are kept      *)
(* exact, as pairs <<numerator, denominator>>.                             *)
(***************************************************************************)
EXTENDS Integers, Sequences, FiniteSets, TLC

VARIABLES
    pc,          \* where the run stands
    build,       \* how the installed pandas holds a missing string (see BUILDS)
    glob_files,  \* load_and_combine_chunks: the files glob.glob returned
    loaded,      \* load_and_combine_chunks: its result
    prefix,      \* clean_domain_df: the domain tag
    raw,         \* clean_domain_df: the table it was called with
    df,          \* clean_domain_df: the local df, statement after statement
    data_dir,    \* load_and_clean_data: the files of DATA_DIR, per glob pattern
    df_dom,      \* load_and_clean_data: df_enrol, df_bio, df_demo
    master,      \* load_and_clean_data: its result
    health,      \* generate_health_index: its result
    top_risk,    \* analyze_mbu_gap: the ranked table it plots
    df_again     \* clean_domain_df called on its own output: the table it was
                 \* called with and its result

vars == <<pc, build, glob_files, loaded, prefix, raw, df, data_dir, df_dom,
          master, health, top_risk, df_again>>

(***************************************************************************)
(* Values                                                                  *)
(***************************************************************************)
\* A variable that the specification at hand does not use.
Unused == "unused"

\* The missing value of an option cell, and a present one.
NaN == <<>>
Some(v) == <<v>>
IsNaN(c) == c = <<>>

\* The result of a call that raised exception e.
Raised(e) == [raised |-> e]
IsRaised(t) == "raised" \in DOMAIN t

\* pd.DataFrame(): no columns, no rows.
EmptyFrame == [cols |-> {}, rows |-> <<>>]

\* DataFrame.empty: either axis has length 0.
IsEmpty(t) == t.cols = {} \/ t.rows = <<>>

\* The two ways an installed pandas holds a missing string in a text column:
\* "object" (object dtype: .str.contains gives NaN for it, and ~ on that
\* raises TypeError) and "str" (the string dtype: .str.contains gives False).
BUILDS == {"object", "str"}

Range(s) == {s[i] : i \in DOMAIN s}

RECURSIVE SumSeq(_)
SumSeq(s) == IF s = <<>> THEN 0 ELSE s[1] + SumSeq(Tail(s))

RECURSIVE Flatten(_)
Flatten(ss) == IF ss = <<>> THEN <<>> ELSE ss[1] \o Flatten(Tail(ss))

\* The sequences over S of length at most n.
SeqsUpTo(S, n) == UNION {[1..k -> S] : k \in 0..n}

\* s sorted by insertion, stable: an element goes after the ones it is not
\* before.  before[<<a, b>>] is the strict order, a function on the pairs of
\* elements of s.
RECURSIVE InsertSorted(_, _, _)
InsertSorted(x, s, before) ==
    IF s = <<>> THEN <<x>>
    ELSE IF before[<<x, s[1]>>] THEN <<x>> \o s
    ELSE <<s[1]>> \o InsertSorted(x, Tail(s), before)

RECURSIVE SortBy(_, _)
SortBy(s, before) ==
    IF s = <<>> THEN <<>>
    ELSE InsertSorted(s[Len(s)], SortBy(SubSeq(s, 1, Len(s) - 1), before), before)

(***************************************************************************)
(* Text: str.title, str.strip, the \d search, and comparison               *)
(***************************************************************************)
LowerLetters == <<"a","b","c","d","e","f","g","h","i","j","k","l","m",
                  "n","o","p","q","r","s","t","u","v","w","x","y","z">>
UpperLetters == <<"A","B","C","D","E","F","G","H","I","J","K","L","M",
                  "N","O","P","Q","R","S","T","U","V","W","X","Y","Z">>
DigitChars == <<"0","1","2","3","4","5","6","7","8","9">>
\* The characters str.strip removes.
WhitespaceChars == <<"\t", " ">>

\* The characters of the model in code point order.
CodePoints == WhitespaceChars \o DigitChars \o UpperLetters \o LowerLetters
Chars == Range(CodePoints)
Ord == [c \in Chars |-> CHOOSE i \in DOMAIN CodePoints : CodePoints[i] = c]

IsLower(c) == c \in Range(LowerLetters)
IsUpper(c) == c \in Range(UpperLetters)
IsCased(c) == IsLower(c) \/ IsUpper(c)
IsDigit(c) == c \in Range(DigitChars)
IsSpace(c) == c \in Range(WhitespaceChars)

ToUpper == [c \in Chars |->
              IF IsLower(c)
              THEN UpperLetters[CHOOSE i \in DOMAIN LowerLetters : LowerLetters[i] = c]
              ELSE c]
ToLower == [c \in Chars |->
              IF IsUpper(c)
              THEN LowerLetters[CHOOSE i \in DOMAIN UpperLetters : UpperLetters[i] = c]
              ELSE c]

\* str.title(): a cased character is upper-cased when the character before it
\* is not cased (or there is none) and lower-cased when it is.
Title(s) ==
    [i \in DOMAIN s |->
        IF ~IsCased(s[i]) THEN s[i]
        ELSE IF i > 1 /\ IsCased(s[i - 1]) THEN ToLower[s[i]]
        ELSE ToUpper[s[i]]]

\* str.strip(): without its leading and trailing whitespace.
Strip(s) ==
    LET keep == {i \in DOMAIN s : ~IsSpace(s[i])}
    IN  IF keep = {} THEN <<>>
        ELSE SubSeq(s, CHOOSE i \in keep : \A j \in keep : i <= j,
                       CHOOSE i \in keep : \A j \in keep : i >= j)

\* re.search(r'\d', s) finds something.
ContainsDigit(s) == \E i \in DOMAIN s : IsDigit(s[i])
\* A digit at the start of s.
FirstCharIsDigit(s) == s # <<>> /\ IsDigit(s[1])

\* s < t as Python compares str: by code point, a proper prefix first.
TextBefore(s, t) ==
    \E k \in 1..(Len(t)) :
        /\ \A i \in 1..(k - 1) : i <= Len(s) /\ s[i] = t[i]
        /\ \/ k = Len(s) + 1
           \/ k <= Len(s) /\ Ord[s[k]] < Ord[t[k]]

\* The .str accessor on one cell: a missing text stays missing.
StrTitle(c) == IF IsNaN(c) THEN NaN ELSE Some(Title(c[1]))
StrStrip(c) == IF IsNaN(c) THEN NaN ELSE Some(Strip(c[1]))

(***************************************************************************)
(* Dates: pd.to_datetime(format='%d-%m-%Y', errors='coerce') and           *)
(* .dt.to_period('M').  A date text "a-b-c" is the triple <<a, b, c>> of   *)
(* its three fields; a text that is no such triple of numbers is <<>>.     *)
(***************************************************************************)
IsLeap(y) == (y % 4 = 0 /\ y % 100 # 0) \/ y % 400 = 0
DaysIn(m, y) ==
    IF m = 2 THEN (IF IsLeap(y) THEN 29 ELSE 28)
    ELSE IF m \in {4, 6, 9, 11} THEN 30 ELSE 31

\* The parsed date <<year, month, day>> as an option; NaT when %d-%m-%Y does
\* not match or names no day of the calendar.
ParseDayMonthYear(txt) ==
    IF Len(txt) # 3 THEN NaN
    ELSE IF /\ txt[3] \in 1..9999 /\ txt[2] \in 1..12
            /\ txt[1] \in 1..DaysIn(txt[2], txt[3])
         THEN Some(<<txt[3], txt[2], txt[1]>>)
         ELSE NaN

\* Series.dt.to_period('M') on one cell: <<year, month>>, NaT staying NaT.
ToPeriodM(d) == IF IsNaN(d) THEN NaN ELSE Some(<<d[1][1], d[1][2]>>)

MonthBefore(a, b) == a[1] < b[1] \/ (a[1] = b[1] /\ a[2] < b[2])

(***************************************************************************)
(* load_and_combine_chunks.  A file is [ok, table]: pd.read_csv returns    *)
(* table when ok and raises otherwise.                                     *)
(***************************************************************************)
\* ReadChunks stopping at the first file that does not parse.
RECURSIVE ReadUntilFailure(_)
ReadUntilFailure(fs) ==
    IF fs = <<>> \/ ~fs[1].ok THEN <<>>
    ELSE <<fs[1].table>> \o ReadUntilFailure(Tail(fs))
\* The loop over files with its try/except: the tables of the files that parse.
RECURSIVE ReadChunks(_)
ReadChunks(fs) ==
    IF fs = <<>> THEN <<>>
    ELSE (IF fs[1].ok THEN <<fs[1].table>> ELSE <<>>) \o ReadChunks(Tail(fs))

\* pd.concat(dfs, ignore_index=True): the union of the columns, the rows in
\* list order, a cell of a column its table lacks missing.
Concat(dfs) ==
    LET allcols == UNION {dfs[i].cols : i \in DOMAIN dfs}
        Widen(r) == [c \in allcols |-> IF c \in DOMAIN r THEN r[c] ELSE NaN]
        RowsOf(t) == [i \in DOMAIN t.rows |-> Widen(t.rows[i])]
    IN  [cols |-> allcols,
         rows |-> Flatten([i \in DOMAIN dfs |-> RowsOf(dfs[i])])]

LoadAndCombineChunks(fs) ==
    LET dfs == ReadChunks(fs)
    IN  IF dfs = <<>> THEN EmptyFrame ELSE Concat(dfs)

(***************************************************************************)
(* clean_domain_df, statement by statement.  Each operator maps the local  *)
(* df to its next value.                                                   *)
(***************************************************************************)
rename_map(p) ==
    IF p = "enrol"
    THEN [age_0_5 |-> "enrol_infant", age_5_17 |-> "enrol_child",
          age_18_greater |-> "enrol_adult"]
    ELSE IF p = "bio"
    THEN [bio_age_5_17 |-> "bio_child", bio_age_17_ |-> "bio_adult"]
    ELSE IF p = "demo"
    THEN [demo_age_5_17 |-> "demo_child", demo_age_17_ |-> "demo_adult"]
    ELSE <<>>

\* Lines 31-42.  The headers of the tables of this model are in lower case
\* with no blank around them, so that line 31 leaves them as they are.
RenameColumns(t, p) ==
    LET m == rename_map(p)
        New(c) == IF c \in DOMAIN m THEN m[c] ELSE c
        newcols == {New(c) : c \in t.cols}
        Row(r) == [n \in newcols |-> r[CHOOSE c \in t.cols : New(c) = n]]
    IN  [cols |-> newcols, rows |-> [i \in DOMAIN t.rows |-> Row(t.rows[i])]]

\* FixStates without the strip: the title-cased text as it is.
FixStatesNoStrip(t) ==
    [t EXCEPT !.rows = [i \in DOMAIN t.rows |->
        [t.rows[i] EXCEPT !.state = StrTitle(t.rows[i].state)]]]
\* Line 45: df['state'].str.title().str.strip().
FixStates(t) ==
    [t EXCEPT !.rows = [i \in DOMAIN t.rows |->
        [t.rows[i] EXCEPT !.state = StrStrip(StrTitle(t.rows[i].state))]]]

\* GarbageFilter looking at the first character alone.
GarbageFilterLeadingDigit(t, b) ==
    IF b = "object" /\ \E i \in DOMAIN t.rows : IsNaN(t.rows[i].state)
    THEN Raised("TypeError")
    ELSE [t EXCEPT !.rows = SelectSeq(t.rows,
            LAMBDA r : IsNaN(r.state) \/ ~FirstCharIsDigit(r.state[1]))]
\* Line 49: df[~df['state'].str.contains(r'\d', regex=True)].  With a missing
\* state the mask of the "object" build holds NaN and ~ raises TypeError; the
\* mask of the "str" build holds False there and the row is kept.
GarbageFilter(t, b) ==
    IF b = "object" /\ \E i \in DOMAIN t.rows : IsNaN(t.rows[i].state)
    THEN Raised("TypeError")
    ELSE [t EXCEPT !.rows = SelectSeq(t.rows,
            LAMBDA r : IsNaN(r.state) \/ ~ContainsDigit(r.state[1]))]

\* Region names, as texts.
Westbengal == <<"W","e","s","t","b","e","n","g","a","l">>
WestBengal == <<"W","e","s","t"," ","B","e","n","g","a","l">>
Orissa == <<"O","r","i","s","s","a">>
Odisha == <<"O","d","i","s","h","a">>
Uttaranchal == <<"U","t","t","a","r","a","n","c","h","a","l">>
Uttarakhand == <<"U","t","t","a","r","a","k","h","a","n","d">>
Delhi == <<"D","e","l","h","i">>
NCTOfDelhi == <<"N","C","T"," ","O","f"," ","D","e","l","h","i">>

\* Line 52.
state_map ==
    (Westbengal :> WestBengal) @@ (Orissa :> Odisha)
        @@ (Uttaranchal :> Uttarakhand) @@ (Delhi :> NCTOfDelhi)

\* Line 53: Series.replace(state_map): a value equal to a key becomes its
\* entry; the missing value is no key.
ReplaceOne(c) ==
    IF ~IsNaN(c) /\ c[1] \in DOMAIN state_map THEN Some(state_map[c[1]]) ELSE c
ReplaceStates(t) ==
    [t EXCEPT !.rows = [i \in DOMAIN t.rows |->
        [t.rows[i] EXCEPT !.state = ReplaceOne(t.rows[i].state)]]]

\* Lines 56-57: the date column parsed, and the month column added.
DateMonth(t) ==
    LET Parsed(r) == IF IsNaN(r.date) THEN NaN ELSE ParseDayMonthYear(r.date[1])
        Row(r) == [c \in t.cols \cup {"month"} |->
                     IF c = "month" THEN ToPeriodM(Parsed(r))
                     ELSE IF c = "date" THEN Parsed(r)
                     ELSE r[c]]
    IN  [cols |-> t.cols \cup {"month"},
         rows |-> [i \in DOMAIN t.rows |-> Row(t.rows[i])]]

\* Line 60.
group_cols == {"state", "district", "month"}
\* Line 61.
numeric_cols(t) == (t.cols \ group_cols) \ {"date", "pincode"}

\* The grouping key of a row with no missing key cell.
KeyOf(r) == <<r.state[1], r.district[1], r.month[1]>>
HasKey(r) == ~IsNaN(r.state) /\ ~IsNaN(r.district) /\ ~IsNaN(r.month)

\* Keys in the order groupby and an outer merge leave them: by state, then
\* district, then month.
KeyBefore(a, b) ==
    \/ TextBefore(a[1], b[1])
    \/ a[1] = b[1] /\ TextBefore(a[2], b[2])
    \/ a[1] = b[1] /\ a[2] = b[2] /\ MonthBefore(a[3], b[3])

RECURSIVE SetToSeq(_)
SetToSeq(S) ==
    IF S = {} THEN <<>>
    ELSE LET x == CHOOSE x \in S : TRUE IN <<x>> \o SetToSeq(S \ {x})

SortedKeys(K) == SortBy(SetToSeq(K), [p \in K \X K |-> KeyBefore(p[1], p[2])])

\* The sum of column c over the rows of t with key k.  The counter cells of
\* the tables of this model are numbers, none missing.
ColumnSum(t, k, c) ==
    SumSeq([i \in DOMAIN t.rows |->
              IF HasKey(t.rows[i]) /\ KeyOf(t.rows[i]) = k
              THEN t.rows[i][c] ELSE 0])

\* Aggregate with the month left out of the key.
AggregateByDistrict(t) ==
    LET keys == {<<KeyOf(t.rows[i])[1], KeyOf(t.rows[i])[2]>> :
                    i \in {j \in DOMAIN t.rows : HasKey(t.rows[j])}}
        ks == SetToSeq(keys)
        First(k) == CHOOSE i \in DOMAIN t.rows :
                        /\ HasKey(t.rows[i])
                        /\ <<KeyOf(t.rows[i])[1], KeyOf(t.rows[i])[2]>> = k
        KeyRow(k) == KeyOf(t.rows[First(k)])
        Row(k) == [c \in group_cols \cup numeric_cols(t) |->
                     IF c = "state" THEN k[1]
                     ELSE IF c = "district" THEN k[2]
                     ELSE IF c = "month" THEN KeyRow(k)[3]
                     ELSE SumSeq([i \in DOMAIN t.rows |->
                            IF /\ HasKey(t.rows[i])
                               /\ <<KeyOf(t.rows[i])[1], KeyOf(t.rows[i])[2]>> = k
                            THEN t.rows[i][c] ELSE 0])]
    IN  [cols |-> group_cols \cup numeric_cols(t),
         rows |-> [i \in DOMAIN ks |-> Row(ks[i])]]
\* Line 62: groupby(group_cols)[numeric_cols].sum().reset_index().  A row
\* with a missing key cell belongs to no group.
Aggregate(t) ==
    LET keys == {KeyOf(t.rows[i]) : i \in {j \in DOMAIN t.rows : HasKey(t.rows[j])}}
        ks == SortedKeys(keys)
        Row(k) == [c \in group_cols \cup numeric_cols(t) |->
                     IF c = "state" THEN k[1]
                     ELSE IF c = "district" THEN k[2]
                     ELSE IF c = "month" THEN k[3]
                     ELSE ColumnSum(t, k, c)]
    IN  [cols |-> group_cols \cup numeric_cols(t),
         rows |-> [i \in DOMAIN ks |-> Row(ks[i])]]

\* clean_domain_df(df, prefix) as a whole, for the callers of it.
CleanDomainDf(t, p, b) ==
    IF IsEmpty(t) THEN t
    ELSE LET filtered == GarbageFilter(FixStates(RenameColumns(t, p)), b)
         IN  IF IsRaised(filtered) THEN filtered
             ELSE Aggregate(DateMonth(ReplaceStates(filtered)))

(***************************************************************************)
(* Exact quotients                                                         *)
(***************************************************************************)
RECURSIVE GCD(_, _)
GCD(a, b) == IF b = 0 THEN a ELSE GCD(b, a % b)

\* n / d in lowest terms, d > 0 and n >= 0.
Quot(n, d) == LET g == GCD(n, d) IN <<n \div g, d \div g>>
QuotAdd(p, q) == Quot(p[1] * q[2] + q[1] * p[2], p[2] * q[2])
QuotLeq(p, q) == p[1] * q[2] <= q[1] * p[2]
QuotLess(p, q) == p[1] * q[2] < q[1] * p[2]

RECURSIVE QuotSum(_)
QuotSum(s) == IF s = <<>> THEN <<0, 1>> ELSE QuotAdd(s[1], QuotSum(Tail(s)))

(***************************************************************************)
(* load_and_clean_data                                                     *)
(***************************************************************************)
\* Lines 70-72 and 75-77: the glob pattern and the tag of each domain, in
\* call order.
Domains == <<"enrol", "bio", "demo">>
Pattern == [enrol |-> "api_data_aadhar_enrolment_*.csv",
            bio |-> "api_data_aadhar_biometric_*.csv",
            demo |-> "api_data_aadhar_demographic_*.csv"]

\* The key of a row of a normalised table, whose key cells are never missing.
RowKey(r) == <<r.state, r.district, r.month>>
Keys(t) == {RowKey(t.rows[i]) : i \in DOMAIN t.rows}
RowAt(t, k) == t.rows[CHOOSE i \in DOMAIN t.rows : RowKey(t.rows[i]) = k]

\* The non-key cells of t as options, which is how a merge hands them on.
Lift(t) ==
    [cols |-> t.cols,
     rows |-> [i \in DOMAIN t.rows |->
                [c \in t.cols |-> IF c \in group_cols THEN t.rows[i][c]
                                  ELSE Some(t.rows[i][c])]]]

\* pd.merge(a, b, on=['state', 'district', 'month'], how=...) of two tables
\* with unique keys and no other column in common: one row per key, in key
\* order, the cells of a table without the key missing.
MergeOn(a, b, keys) ==
    LET ks == SortedKeys(keys)
        cols == a.cols \cup b.cols
        Cell(k, c) ==
            IF c = "state" THEN k[1]
            ELSE IF c = "district" THEN k[2]
            ELSE IF c = "month" THEN k[3]
            ELSE IF c \in a.cols
                 THEN (IF k \in Keys(a) THEN RowAt(a, k)[c] ELSE NaN)
                 ELSE (IF k \in Keys(b) THEN RowAt(b, k)[c] ELSE NaN)
    IN  [cols |-> cols,
         rows |-> [i \in DOMAIN ks |-> [c \in cols |-> Cell(ks[i], c)]]]
\* The merge how='inner'.
InnerMerge(a, b) == MergeOn(a, b, Keys(a) \cap Keys(b))
OuterMerge(a, b) == MergeOn(a, b, Keys(a) \cup Keys(b))

\* Lines 80-84 and 86-89: one domain table joined to the master so far.
Join(m, t) ==
    IF IsEmpty(m) /\ ~IsEmpty(t) THEN Lift(t)
    ELSE IF ~IsEmpty(m) /\ ~IsEmpty(t) THEN OuterMerge(m, Lift(t))
    ELSE m

\* Line 91: master.fillna(0).
Fillna(t) ==
    [cols |-> t.cols,
     rows |-> [i \in DOMAIN t.rows |->
                [c \in t.cols |->
                    IF c \in group_cols THEN t.rows[i][c]
                    ELSE IF IsNaN(t.rows[i][c]) THEN 0 ELSE t.rows[i][c][1]]]]

\* Line 94.
activity_cols ==
    <<"enrol_child", "enrol_adult", "bio_child", "bio_adult", "demo_child", "demo_adult">>

\* TotalActivity over every counter of the table, the infants included.
TotalActivityAll(t, r) ==
    LET counters == (t.cols \ group_cols) \ {"date", "pincode"}
    IN  SumSeq([i \in DOMAIN SetToSeq(counters) |-> r[SetToSeq(counters)[i]]])
\* Line 95: the row sum over the activity columns the table has.
TotalActivity(t, r) ==
    SumSeq([i \in DOMAIN activity_cols |->
              IF activity_cols[i] \in t.cols THEN r[activity_cols[i]] ELSE 0])

\* MbuCompliance without the + 1 of the denominator.
MbuComplianceNoSmoothing(t, r) ==
    IF "bio_child" \in t.cols /\ "enrol_child" \in t.cols
    THEN (IF r.enrol_child = 0 THEN <<0, 1>> ELSE Quot(r.bio_child, r.enrol_child))
    ELSE <<0, 1>>
\* Lines 98-101.
MbuCompliance(t, r) ==
    IF "bio_child" \in t.cols /\ "enrol_child" \in t.cols
    THEN Quot(r.bio_child, r.enrol_child + 1)
    ELSE <<0, 1>>

\* Lines 93-101: the two derived columns.
FeatureEngineering(t) ==
    LET cols == t.cols \cup {"total_activity", "mbu_compliance"}
        Row(r) == [c \in cols |->
                     IF c = "total_activity" THEN TotalActivity(t, r)
                     ELSE IF c = "mbu_compliance" THEN MbuCompliance(t, r)
                     ELSE r[c]]
    IN  [cols |-> cols, rows |-> [i \in DOMAIN t.rows |-> Row(t.rows[i])]]

\* Lines 79-103 on the three normalised tables.
BuildMaster(e, b, d) ==
    FeatureEngineering(Fillna(Join(Join(Lift(e), b), d)))

\* A local that the run did not come to assign.
Unassigned == [unassigned |-> TRUE]

\* load_and_clean_data(): df_enrol, df_bio, df_demo and the returned master.
\* An exception of clean_domain_df leaves the function at that call.
LoadAndCleanData(dir, bld) ==
    LET e == CleanDomainDf(LoadAndCombineChunks(dir[Pattern.enrol]), "enrol", bld)
        b == CleanDomainDf(LoadAndCombineChunks(dir[Pattern.bio]), "bio", bld)
        d == CleanDomainDf(LoadAndCombineChunks(dir[Pattern.demo]), "demo", bld)
    IN  IF IsRaised(e)
        THEN [dom |-> [enrol |-> e, bio |-> Unassigned, demo |-> Unassigned],
              master |-> e]
        ELSE IF IsRaised(b)
        THEN [dom |-> [enrol |-> e, bio |-> b, demo |-> Unassigned], master |-> b]
        ELSE IF IsRaised(d)
        THEN [dom |-> [enrol |-> e, bio |-> b, demo |-> d], master |-> d]
        ELSE [dom |-> [enrol |-> e, bio |-> b, demo |-> d],
              master |-> BuildMaster(e, b, d)]

(***************************************************************************)
(* generate_health_index.  The standard deviation and what is computed     *)
(* from it are real numbers: each is held as an option (missing when       *)
(* pandas gives NaN) of the exact quantities that determine it.            *)
(***************************************************************************)
\* Line 131.
n_clusters == 3
ClusterIds == 0..(n_clusters - 1)

\* Line 140.
label_map ==
    (0 :> "Critical Risk (High Gap)") @@ (1 :> "Moderate Risk")
        @@ (2 :> "Healthy Ecosystem")

\* The (state, district) groups of the master table, in groupby order.
DistrictBefore(a, b) ==
    TextBefore(a[1], b[1]) \/ (a[1] = b[1] /\ TextBefore(a[2], b[2]))
DistrictGroups(m) ==
    LET G == {<<m.rows[i].state, m.rows[i].district>> : i \in DOMAIN m.rows}
    IN  SortBy(SetToSeq(G), [p \in G \X G |-> DistrictBefore(p[1], p[2])])

\* The rows of m in group g.
GroupRows(m, g) ==
    SelectSeq(m.rows, LAMBDA r : <<r.state, r.district>> = g)

\* Series.std() (ddof = 1) of the activity of rows rs, as its square; missing
\* for a single row.
SampleVariance(rs) ==
    LET n == Len(rs)
        sum == SumSeq([i \in DOMAIN rs |-> rs[i].total_activity])
        squares == SumSeq([i \in DOMAIN rs |-> rs[i].total_activity * rs[i].total_activity])
    IN  IF n < 2 THEN NaN ELSE Some(Quot(n * squares - sum * sum, n * (n - 1)))

\* Lines 114-124 for one group.
GroupStats(m, g) ==
    LET rs == GroupRows(m, g)
        n == Len(rs)
        sum == SumSeq([i \in DOMAIN rs |-> rs[i].total_activity])
        var == SampleVariance(rs)
        mbu == QuotSum([i \in DOMAIN rs |-> rs[i].mbu_compliance])
        \* (std / (mean + 1)) squared
        cv2 == IF IsNaN(var) THEN NaN
               ELSE Some(Quot(var[1][1] * n * n, var[1][2] * (sum + n) * (sum + n)))
    IN  [state |-> g[1], district |-> g[2],
         total_vol |-> sum,
         daily_avg |-> Quot(sum, n),
         daily_std |-> var,
         avg_mbu_compliance |-> Quot(mbu[1], mbu[2] * n),
         volatility_cv |-> cv2,
         \* 1 / (volatility_cv + 0.1), by the volatility it is computed from
         stability_score |-> IF IsNaN(cv2) THEN NaN ELSE Some([cv_squared |-> cv2[1]])]

\* Line 135: the cluster ids in use, by ascending mean total_vol (ids with
\* equal means in id order).
ClusterMean(st, labels, c) ==
    LET members == {i \in DOMAIN st : labels[i] = c}
    IN  Quot(SumSeq([i \in DOMAIN st |-> IF i \in members THEN st[i].total_vol ELSE 0]),
             Cardinality(members))
\* ClusterRank in id order, whatever the means.
ClusterRankById(st, labels) ==
    LET used == {labels[i] : i \in DOMAIN st}
    IN  SelectSeq(<<0, 1, 2>>, LAMBDA c : c \in used)
ClusterRank(st, labels) ==
    LET used == {labels[i] : i \in DOMAIN st}
        ids == SelectSeq(<<0, 1, 2>>, LAMBDA c : c \in used)
    IN  SortBy(ids, [p \in used \X used |->
                       QuotLess(ClusterMean(st, labels, p[1]),
                                ClusterMean(st, labels, p[2]))])

\* Line 136.
RankMap(cluster_rank) ==
    [old \in Range(cluster_rank) |->
        (CHOOSE i \in DOMAIN cluster_rank : cluster_rank[i] = old) - 1]

\* Line 144: MinMaxScaler on total_vol (a column of one value scales to 0).
NormVol(st, i) ==
    LET vols == {st[j].total_vol : j \in DOMAIN st}
        lo == CHOOSE v \in vols : \A w \in vols : v <= w
        hi == CHOOSE v \in vols : \A w \in vols : v >= w
    IN  IF hi = lo THEN <<0, 1>> ELSE Quot(st[i].total_vol - lo, hi - lo)

\* generate_health_index(df) with labels the cluster ids kmeans.fit_predict
\* returns, one per group.  The returned rows are left in group order: the
\* final order by health_index is not part of this model.
HealthIndex(m, labels) ==
    LET groups == DistrictGroups(m)
        st == [i \in DOMAIN groups |-> GroupStats(m, groups[i])]
        rank_map == RankMap(ClusterRank(st, labels))
        Row(i) ==
            [c \in (DOMAIN st[i]) \cup {"cluster", "health_grade", "risk_category", "health_index"} |->
                IF c = "cluster" THEN labels[i]
                ELSE IF c = "health_grade" THEN rank_map[labels[i]]
                ELSE IF c = "risk_category" THEN label_map[rank_map[labels[i]]]
                ELSE IF c = "health_index"
                THEN (IF IsNaN(st[i].stability_score) THEN NaN
                      ELSE Some([norm_vol |-> NormVol(st, i),
                                 stability_score |-> st[i].stability_score[1],
                                 avg_mbu_compliance |-> st[i].avg_mbu_compliance]))
                ELSE st[i][c]]
    IN  [i \in DOMAIN st |-> Row(i)]

\* What stops generate_health_index(df) before it returns, if anything:
\* groupby on a column the table lacks (KeyError), MinMaxScaler on no sample
\* and KMeans on fewer samples than clusters (ValueError).
HealthFailure(m) ==
    IF ~({"state", "district", "total_activity", "mbu_compliance"} \subseteq m.cols)
    THEN "KeyError"
    ELSE IF Len(DistrictGroups(m)) < n_clusters THEN "ValueError"
    ELSE "none"

(***************************************************************************)
(* analyze_mbu_gap                                                         *)
(***************************************************************************)
\* Line 168: head(10).
TopN == 10

Reverse(s) == [i \in DOMAIN s |-> s[Len(s) + 1 - i]]
HeadRows(s, n) == SubSeq(s, 1, IF Len(s) < n THEN Len(s) ELSE n)

\* Lines 165-166: one row per district name, in name order.
GapOf(e, b) == e - b
DistrictTable(m) ==
    LET D == {m.rows[i].district : i \in DOMAIN m.rows}
        ds == SortBy(SetToSeq(D), [p \in D \X D |-> TextBefore(p[1], p[2])])
        Sum(d, c) == SumSeq([i \in DOMAIN m.rows |->
                        IF m.rows[i].district = d THEN m.rows[i][c] ELSE 0])
    IN  [i \in DOMAIN ds |->
            [district |-> ds[i],
             enrol_child |-> Sum(ds[i], "enrol_child"),
             bio_child |-> Sum(ds[i], "bio_child"),
             gap |-> GapOf(Sum(ds[i], "enrol_child"), Sum(ds[i], "bio_child"))]]

\* SortByGap with ascending=True.
SortByGapAscending(t, reversed) ==
    LET R == Range(t)
    IN  SortBy(IF reversed THEN Reverse(t) ELSE t,
               [p \in R \X R |-> p[1].gap < p[2].gap])
\* Line 168: sort_values('gap', ascending=False).  The sort is not a stable
\* one: rows of equal gap come out in table order or (reversed) against it.
SortByGap(t, reversed) ==
    LET R == Range(t)
    IN  SortBy(IF reversed THEN Reverse(t) ELSE t,
               [p \in R \X R |-> p[1].gap > p[2].gap])

\* The early return of line 163.
Skipped == [skipped |-> TRUE]

\* analyze_mbu_gap(df): top_risk, or Skipped when a column is missing.
MbuGap(m, reversed) ==
    IF "enrol_child" \notin m.cols \/ "bio_child" \notin m.cols THEN Skipped
    ELSE [rows |-> HeadRows(SortByGap(DistrictTable(m), reversed), TopN)]

(***************************************************************************)
(* Inputs                                                                  *)
(***************************************************************************)
\* Rows of a raw table.
MaxRows == 2
\* Files matched by one glob pattern.
MaxFiles == 3

\* The headers of the three families of files.
RawCols ==
    [enrol |-> {"date", "state", "district", "pincode", "age_0_5", "age_5_17", "age_18_greater"},
     bio |-> {"date", "state", "district", "pincode", "bio_age_5_17", "bio_age_17_"},
     demo |-> {"date", "state", "district", "pincode", "demo_age_5_17", "demo_age_17_"}]

\* A raw row of domain p: infant is read by the enrolment family alone.
RawRow(p, st, di, dt, infant, child, adult) ==
    LET Cell(c) ==
            IF c = "state" THEN st
            ELSE IF c = "district" THEN di
            ELSE IF c = "date" THEN dt
            ELSE IF c = "pincode" THEN 700001
            ELSE IF c = "age_0_5" THEN infant
            ELSE IF c \in {"age_5_17", "bio_age_5_17", "demo_age_5_17"} THEN child
            ELSE adult
    IN  [c \in RawCols[p] |-> Cell(c)]

DistrictX == <<"X">>
DistrictY == <<"Y">>

\* Region cells as the files spell them.
westbengal_ == <<"w","e","s","t","b","e","n","g","a","l"," ">>
AllDigits == <<"1","0","0","0","0","0">>
delhi_2 == <<"d","e","l","h","i"," ","2">>
_DELHI == <<" ","D","E","L","H","I">>
GOA == <<"G","O","A">>
Goa == <<"G","o","a">>
orissa == <<"o","r","i","s","s","a">>

\* Date cells: 01-03-2025, 15-04-2025 and 31-02-2025, which is no day.
Date_01_03_2025 == Some(<<1, 3, 2025>>)
Date_15_04_2025 == Some(<<15, 4, 2025>>)
Date_31_02_2025 == Some(<<31, 2, 2025>>)

\* The nondecreasing sequences over 1..n of length at most k: one table per
\* bag of menu rows.
Picks(n, k) ==
    {s \in SeqsUpTo(1..n, k) : \A i \in 1..(Len(s) - 1) : s[i] <= s[i + 1]}
TablesOver(menu, cols, k) ==
    {[cols |-> cols, rows |-> [i \in DOMAIN s |-> menu[s[i]]]] : s \in Picks(Len(menu), k)}

\* The raw rows the normaliser is run on: every region spelling with every
\* district and date.
CleanStates ==
    <<NaN, Some(westbengal_), Some(WestBengal), Some(AllDigits), Some(delhi_2)>>
CleanDistricts == <<Some(DistrictX), Some(DistrictY)>>
CleanDates == <<Date_01_03_2025, Date_15_04_2025, Date_31_02_2025>>
CleanMenu(p) ==
    LET n == Len(CleanStates) * Len(CleanDistricts) * Len(CleanDates)
        S(i) == CleanStates[((i - 1) \div (Len(CleanDistricts) * Len(CleanDates))) + 1]
        D(i) == CleanDistricts[(((i - 1) \div Len(CleanDates)) % Len(CleanDistricts)) + 1]
        T(i) == CleanDates[((i - 1) % Len(CleanDates)) + 1]
    IN  [i \in 1..n |->
            IF D(i) = Some(DistrictX)
            THEN RawRow(p, S(i), D(i), T(i), 2, 10, 1)
            ELSE RawRow(p, S(i), D(i), T(i), 0, 4, 3)]

(***************************************************************************)
(* SpecLoad: load_and_combine_chunks on the files of one glob pattern      *)
(***************************************************************************)
LoadTables ==
    LET r1 == RawRow("enrol", Some(westbengal_), Some(DistrictX), Date_01_03_2025, 2, 10, 1)
        r2 == RawRow("enrol", Some(AllDigits), Some(DistrictY), Date_15_04_2025, 0, 4, 3)
        r3 == RawRow("enrol", Some(Goa), Some(DistrictY), Date_31_02_2025, 1, 1, 1)
    IN  {[cols |-> RawCols.enrol, rows |-> <<>>],
         [cols |-> RawCols.enrol, rows |-> <<r1>>],
         [cols |-> RawCols.enrol, rows |-> <<r2, r3>>]}
LoadFiles == [ok : BOOLEAN, table : LoadTables]

InitLoad ==
    /\ pc = "load_call"
    /\ glob_files \in SeqsUpTo(LoadFiles, MaxFiles)
    /\ loaded = Unassigned
    /\ build = Unused /\ prefix = Unused /\ raw = Unused /\ df = Unused
    /\ data_dir = Unused /\ df_dom = Unused /\ master = Unused
    /\ health = Unused /\ top_risk = Unused /\ df_again = Unused

\* load_and_combine_chunks(file_pattern), lines 15-26.
LoadAndCombineChunksCall ==
    /\ pc = "load_call"
    /\ loaded' = LoadAndCombineChunks(glob_files)
    /\ pc' = "load_returned"
    /\ UNCHANGED <<build, glob_files, prefix, raw, df, data_dir, df_dom, master,
                   health, top_risk, df_again>>

NextLoad == LoadAndCombineChunksCall
SpecLoad == InitLoad /\ [][NextLoad]_vars

(***************************************************************************)
(* SpecClean: clean_domain_df on one raw table, statement by statement     *)
(***************************************************************************)
InitIdleClean ==
    /\ pc = "clean_call"
    /\ df = Unassigned
    /\ glob_files = Unused /\ loaded = Unused
    /\ data_dir = Unused /\ df_dom = Unused /\ master = Unused
    /\ health = Unused /\ top_risk = Unused /\ df_again = Unused

CleanTables(p) == TablesOver(CleanMenu(p), RawCols[p], MaxRows) \cup {EmptyFrame}

InitClean ==
    /\ InitIdleClean
    /\ build \in BUILDS
    /\ prefix \in Range(Domains)
    /\ raw \in CleanTables(prefix)

CleanFrame == UNCHANGED <<build, glob_files, loaded, prefix, raw, data_dir,
                          df_dom, master, health, top_risk, df_again>>

\* Line 30.
CleanReturnEmpty ==
    /\ pc = "clean_call" /\ IsEmpty(raw)
    /\ df' = raw
    /\ pc' = "clean_returned"
    /\ CleanFrame

\* Lines 31-42.
CleanRenameColumns ==
    /\ pc = "clean_call" /\ ~IsEmpty(raw)
    /\ df' = RenameColumns(raw, prefix)
    /\ pc' = "fix_states"
    /\ CleanFrame

\* Line 45.
CleanFixStates ==
    /\ pc = "fix_states"
    /\ df' = FixStates(df)
    /\ pc' = "garbage_filter"
    /\ CleanFrame

\* Line 49.
CleanGarbageFilter ==
    /\ pc = "garbage_filter"
    /\ df' = GarbageFilter(df, build)
    /\ pc' = IF IsRaised(df') THEN "clean_raised" ELSE "replace_states"
    /\ CleanFrame

\* Lines 52-53.
CleanReplaceStates ==
    /\ pc = "replace_states"
    /\ df' = ReplaceStates(df)
    /\ pc' = "date_month"
    /\ CleanFrame

\* Lines 56-57.
CleanDateMonth ==
    /\ pc = "date_month"
    /\ df' = DateMonth(df)
    /\ pc' = "aggregate"
    /\ CleanFrame

\* Lines 60-62.
CleanAggregate ==
    /\ pc = "aggregate"
    /\ df' = Aggregate(df)
    /\ pc' = "clean_returned"
    /\ CleanFrame

NextClean ==
    \/ CleanReturnEmpty
    \/ CleanRenameColumns
    \/ CleanFixStates
    \/ CleanGarbageFilter
    \/ CleanReplaceStates
    \/ CleanDateMonth
    \/ CleanAggregate
SpecClean == InitClean /\ [][NextClean]_vars

(***************************************************************************)
(* Properties of clean_domain_df (SpecClean)                               *)
(***************************************************************************)
Count(s, v) == Cardinality({i \in DOMAIN s : s[i] = v})

\* The region of a raw row as the garbage filter reads it: title-cased, then
\* trimmed.  The row's region is a text (not missing).
HasRegion(r) == ~IsNaN(r.state)
RegionText(r) == Strip(Title(r.state[1]))
IsGarbage(r) == HasRegion(r) /\ ContainsDigit(RegionText(r))
IsClean(r) == HasRegion(r) /\ ~ContainsDigit(RegionText(r))

\* The raw rows under their standard column names, the region as the filter
\* reads it.
RawAsRead ==
    LET t == RenameColumns(raw, prefix)
    IN  [i \in DOMAIN t.rows |->
            IF HasRegion(t.rows[i])
            THEN [t.rows[i] EXCEPT !.state = Some(RegionText(t.rows[i]))]
            ELSE t.rows[i]]

\* raw without the rows whose region holds a digit.
RawWithoutGarbage ==
    [cols |-> raw.cols, rows |-> SelectSeq(raw.rows, LAMBDA r : ~IsGarbage(r))]

\* What the filter has done wherever clean_domain_df got past it.  After the
\* filter statement, a row whose title-cased and trimmed region holds a digit
\* is not in df, and a row whose region holds none is there as often as in the
\* raw table, its region title-cased and trimmed and not yet remapped; every
\* such row stands in df when the group-and-sum statement is reached, and the
\* returned table is the one the raw table without its digit rows gives.
FilterWhereItReturns ==
    /\ pc = "replace_states" =>
          \A i \in DOMAIN raw.rows :
              LET v == RawAsRead[i]
              IN  /\ IsGarbage(raw.rows[i]) => Count(df.rows, v) = 0
                  /\ IsClean(raw.rows[i]) => Count(df.rows, v) = Count(RawAsRead, v)
    /\ pc = "aggregate" =>
          /\ \A j \in DOMAIN df.rows :
                HasRegion(df.rows[j]) => ~ContainsDigit(df.rows[j].state[1])
          /\ Cardinality({j \in DOMAIN df.rows : HasRegion(df.rows[j])})
                = Cardinality({i \in DOMAIN raw.rows : IsClean(raw.rows[i])})
    /\ (pc = "clean_returned" /\ ~IsEmpty(raw)) =>
          /\ \A j \in DOMAIN df.rows : ~ContainsDigit(df.rows[j].state)
          /\ df.rows = IF IsEmpty(RawWithoutGarbage) THEN <<>>
                       ELSE CleanDomainDf(RawWithoutGarbage, prefix, build).rows

\* C1: garbage filter completeness.  For every raw row of a non-empty table:
\* a row whose title-cased and trimmed region holds a digit contributes to no
\* output row, and a row whose region holds none is kept by the filter (which
\* stands between the title-casing and the remap) and reaches the
\* group-and-sum step, so that clean_domain_df stops at the filter on no
\* table that has such a row.
C1_GarbageFilterComplete ==
    /\ FilterWhereItReturns
    /\ pc = "clean_raised" => \A i \in DOMAIN raw.rows : ~IsClean(raw.rows[i])

\* A table with a digit row and a digit-free row has reached the group-and-sum
\* statement with the digit-free row alone.
C1_Witness ==
    /\ pc = "aggregate"
    /\ Len(raw.rows) = 2
    /\ \E i \in DOMAIN raw.rows : IsGarbage(raw.rows[i]) /\ ~FirstCharIsDigit(RegionText(raw.rows[i]))
    /\ \E i \in DOMAIN raw.rows : IsClean(raw.rows[i])
    /\ Len(df.rows) = 1

\* The canonical region of a raw row whose region is a text.
CanonicalRegion(r) ==
    IF RegionText(r) \in DOMAIN state_map THEN state_map[RegionText(r)]
    ELSE RegionText(r)

\* A raw row that survives to an output row: a digit-free region, a district
\* and a date that parses; and the (region, sub-region, month) triple it
\* counts under.
Survives(r) ==
    /\ IsClean(r)
    /\ ~IsNaN(r.district)
    /\ ~IsNaN(r.date) /\ ~IsNaN(ParseDayMonthYear(r.date[1]))
TripleOf(r) ==
    <<CanonicalRegion(r), r.district[1], ToPeriodM(ParseDayMonthYear(r.date[1]))[1]>>

\* C3: key uniqueness after normalisation.  In the table returned for a
\* non-empty raw table no two rows share their (region, sub-region, month)
\* triple, the triples are those of the surviving raw rows, and each counter
\* of an output row is the sum of that counter over the surviving raw rows
\* with the row's triple.
C3_UniqueKeysAndSums ==
    (pc = "clean_returned" /\ ~IsEmpty(raw)) =>
        LET renamed == RenameColumns(raw, prefix).rows
            alive == {i \in DOMAIN raw.rows : Survives(raw.rows[i])}
        IN  /\ \A i, j \in DOMAIN df.rows :
                  RowKey(df.rows[i]) = RowKey(df.rows[j]) => i = j
            /\ {RowKey(df.rows[i]) : i \in DOMAIN df.rows}
                  = {TripleOf(raw.rows[i]) : i \in alive}
            /\ df.cols \ group_cols # {}
            /\ \A j \in DOMAIN df.rows : \A c \in df.cols \ group_cols :
                  df.rows[j][c] =
                      SumSeq([i \in DOMAIN raw.rows |->
                                IF i \in alive /\ TripleOf(raw.rows[i]) = RowKey(df.rows[j])
                                THEN renamed[i][c] ELSE 0])

\* Two surviving raw rows spelled differently came to one output row holding
\* the sum of their counters.
C3_Witness ==
    /\ pc = "clean_returned"
    /\ Len(raw.rows) = 2
    /\ Survives(raw.rows[1]) /\ Survives(raw.rows[2])
    /\ raw.rows[1].state # raw.rows[2].state
    /\ Len(df.rows) = 1
    /\ prefix = "bio" /\ df.rows[1].bio_child = 20

(***************************************************************************)
(* SpecCanon: clean_domain_df on a one-row table whose region is an alias  *)
(* of the remap table in some casing, with blanks around it                *)
(***************************************************************************)
\* Text a with its i-th letter in upper case where up[i] and in lower case
\* elsewhere.
Cased(a, up) == [i \in DOMAIN a |-> IF up[i] THEN ToUpper[a[i]] ELSE ToLower[a[i]]]

\* The blanks put before and after a name.
Pads == {<<>>, <<" ">>, <<"\t">>, <<" ", " ">>}

InitCanon ==
    /\ InitIdleClean
    /\ build = "object"
    /\ prefix = "enrol"
    /\ \E a \in DOMAIN state_map, lead \in Pads, trail \in Pads :
          \E up \in [DOMAIN a -> BOOLEAN] :
              raw = [cols |-> RawCols[prefix],
                     rows |-> <<RawRow(prefix, Some(lead \o Cased(a, up) \o trail),
                                       Some(DistrictX), Date_01_03_2025, 2, 10, 1)>>]

\* clean_domain_df(df, prefix), lines 29-62, as one step.
CleanDomainDfCall ==
    /\ pc = "clean_call"
    /\ df' = CleanDomainDf(raw, prefix, build)
    /\ pc' = IF IsRaised(df') THEN "clean_raised" ELSE "clean_returned"
    /\ CleanFrame

NextCanon == CleanDomainDfCall
SpecCanon == InitCanon /\ [][NextCanon]_vars

\* Text s is alias a up to the casing of its letters and blanks around it.
FoldCase(s) == [i \in DOMAIN s |-> ToLower[s[i]]]
TrimBlanks(s) ==
    LET solid == {i \in DOMAIN s : s[i] \notin {" ", "\t"}}
        first == CHOOSE j \in solid : \A k \in solid : j <= k
        last == CHOOSE j \in solid : \A k \in solid : j >= k
    IN  IF solid = {} THEN <<>> ELSE [i \in 1..(last - first + 1) |-> s[first + i - 1]]
IsVariantOf(s, a) == FoldCase(TrimBlanks(s)) = FoldCase(a)

\* C2: region canonicalisation determinism.  A row whose region is Westbengal,
\* Orissa, Uttaranchal or Delhi in any casing and with any blanks before and
\* after it comes out as one row under West Bengal, Odisha, Uttarakhand or
\* NCT Of Delhi.
C2_AliasesCanonical ==
    pc = "clean_returned" =>
        LET s == raw.rows[1].state[1]
        IN  /\ Len(df.rows) = 1
            /\ IsVariantOf(s, Westbengal) => df.rows[1].state = WestBengal
            /\ IsVariantOf(s, Orissa) => df.rows[1].state = Odisha
            /\ IsVariantOf(s, Uttaranchal) => df.rows[1].state = Uttarakhand
            /\ IsVariantOf(s, Delhi) => df.rows[1].state = NCTOfDelhi
            /\ \E a \in {Westbengal, Orissa, Uttaranchal, Delhi} : IsVariantOf(s, a)

\* "\tuTTARANCHAL  " came out as Uttarakhand.
C2_Witness ==
    /\ pc = "clean_returned"
    /\ raw.rows[1].state[1] =
          <<"\t","u","T","T","A","R","A","N","C","H","A","L"," "," ">>
    /\ df.rows[1].state = Uttarakhand

(***************************************************************************)
(* Spec: a run of the pipeline on the files of DATA_DIR                    *)
(* (load_and_clean_data, then generate_health_index and analyze_mbu_gap    *)
(* on the master table)                                                    *)
(***************************************************************************)
\* The rows found in the files of each family.
EnrolMenu ==
    <<RawRow("enrol", Some(westbengal_), Some(DistrictX), Date_01_03_2025, 0, 10, 0),
      RawRow("enrol", Some(GOA), Some(DistrictY), Date_01_03_2025, 1, 3, 2),
      RawRow("enrol", NaN, Some(DistrictX), Date_01_03_2025, 1, 1, 1)>>
BioMenu ==
    <<RawRow("bio", Some(WestBengal), Some(DistrictX), Date_01_03_2025, 0, 4, 0),
      RawRow("bio", Some(orissa), Some(DistrictX), Date_15_04_2025, 0, 5, 1),
      RawRow("bio", Some(WestBengal), Some(DistrictX), Date_15_04_2025, 0, 2, 2)>>
DemoMenu ==
    <<RawRow("demo", Some(_DELHI), Some(DistrictY), Date_01_03_2025, 0, 6, 7),
      RawRow("demo", Some(WestBengal), Some(DistrictX), Date_31_02_2025, 0, 8, 9)>>
Menu == [enrol |-> EnrolMenu, bio |-> BioMenu, demo |-> DemoMenu]

\* A file that pd.read_csv cannot parse.
BadFile == [ok |-> FALSE, table |-> EmptyFrame]
GoodFile(t) == [ok |-> TRUE, table |-> t]

\* The files of one family: none, one that does not parse, or one holding
\* some rows of the family's menu (or its header alone).
FileLists(p) ==
    {<<>>, <<BadFile>>}
        \cup {<<GoodFile(t)>> : t \in TablesOver(Menu[p], RawCols[p], MaxRows)}

EnrolFileLists == FileLists("enrol")
BioFileLists == FileLists("bio")
DemoFileLists == FileLists("demo")

Init ==
    /\ pc = "start"
    /\ build \in BUILDS
    /\ \E fe \in EnrolFileLists, fb \in BioFileLists, fd \in DemoFileLists :
          data_dir = (Pattern.enrol :> fe) @@ (Pattern.bio :> fb) @@ (Pattern.demo :> fd)
    /\ df_dom = Unassigned /\ master = Unassigned
    /\ health = Unassigned /\ top_risk = Unassigned /\ df_again = Unused
    /\ glob_files = Unused /\ loaded = Unused
    /\ prefix = Unused /\ raw = Unused /\ df = Unused

RunFrame == UNCHANGED <<build, glob_files, loaded, prefix, raw, df, data_dir, df_again>>

\* load_and_clean_data(), lines 65-103.
LoadAndCleanDataCall ==
    /\ pc = "start"
    /\ LET r == LoadAndCleanData(data_dir, build)
       IN  /\ df_dom' = r.dom
           /\ master' = r.master
           /\ pc' = IF IsRaised(r.master) THEN "raised" ELSE "loaded"
    /\ UNCHANGED <<health, top_risk>>
    /\ RunFrame

\* generate_health_index(master), lines 109-155.  The cluster ids come from
\* KMeans, a library: any assignment of the groups to the ids.
GenerateHealthIndexCall ==
    /\ pc = "loaded" /\ health = Unassigned
    /\ IF HealthFailure(master) # "none"
       THEN health' = Raised(HealthFailure(master))
       ELSE \E labels \in [1..Len(DistrictGroups(master)) -> ClusterIds] :
               health' = [rows |-> HealthIndex(master, labels)]
    /\ UNCHANGED <<pc, df_dom, master, top_risk>>
    /\ RunFrame

\* analyze_mbu_gap(master), lines 158-177.
AnalyzeMbuGapCall ==
    /\ pc = "loaded" /\ top_risk = Unassigned
    /\ \E reversed \in BOOLEAN : top_risk' = MbuGap(master, reversed)
    /\ UNCHANGED <<pc, df_dom, master, health>>
    /\ RunFrame

Next ==
    \/ LoadAndCleanDataCall
    \/ GenerateHealthIndexCall
    \/ AnalyzeMbuGapCall
Spec == Init /\ [][Next]_vars

(***************************************************************************)
(* Properties of load_and_clean_data (Spec)                                *)
(***************************************************************************)
\* The counters of each normalised domain table.
ChildCol == [enrol |-> "enrol_child", bio |-> "bio_child", demo |-> "demo_child"]
AdultCol == [enrol |-> "enrol_adult", bio |-> "bio_adult", demo |-> "demo_adult"]
CounterCols(d) ==
    {ChildCol[d], AdultCol[d]} \cup (IF d = "enrol" THEN {"enrol_infant"} ELSE {})

DomainSet == Range(Domains)

\* The keys of normalised domain table d; an empty table has none.
DomKeys(d) == IF IsEmpty(df_dom[d]) THEN {} ELSE Keys(df_dom[d])

MasterRowsAt(k) == {i \in DOMAIN master.rows : RowKey(master.rows[i]) = k}

\* C4: conservation under merge.  A key that is in exactly one of the three
\* normalised domain tables has one master row, whose total_activity is the
\* sum of that domain's child and adult counters for the key.
C4_ConservationUnderMerge ==
    pc = "loaded" =>
        \A d \in DomainSet : \A k \in DomKeys(d) :
            (\A e \in DomainSet \ {d} : k \notin DomKeys(e)) =>
                /\ Cardinality(MasterRowsAt(k)) = 1
                /\ \A i \in MasterRowsAt(k) :
                      master.rows[i].total_activity =
                          RowAt(df_dom[d], k)[ChildCol[d]] + RowAt(df_dom[d], k)[AdultCol[d]]

\* The three domain tables are non-empty and the master table holds a key of
\* the enrolment table alone, with infants enrolled under it.
C4_Witness ==
    /\ pc = "loaded"
    /\ \A d \in DomainSet : ~IsEmpty(df_dom[d])
    /\ \E k \in DomKeys("enrol") :
          /\ k \notin DomKeys("bio") \cup DomKeys("demo")
          /\ RowAt(df_dom.enrol, k).enrol_infant > 0
          /\ \E i \in MasterRowsAt(k) : master.rows[i].total_activity > 0

\* C5: master merge key set and zero fill.  The master table has exactly one
\* row for every key of the non-empty normalised domain tables and no other
\* row, it has the counter columns of every non-empty domain table, and each
\* counter cell holds the domain's value for the key, or 0 when the domain
\* has no row for the key.
C5_MasterKeysAndZeroFill ==
    pc = "loaded" =>
        /\ {RowKey(master.rows[i]) : i \in DOMAIN master.rows}
              = UNION {DomKeys(d) : d \in DomainSet}
        /\ \A i, j \in DOMAIN master.rows :
              RowKey(master.rows[i]) = RowKey(master.rows[j]) => i = j
        /\ \A d \in DomainSet :
              /\ ~IsEmpty(df_dom[d]) => CounterCols(d) \subseteq master.cols
              /\ \A c \in CounterCols(d) \cap master.cols : \A i \in DOMAIN master.rows :
                    master.rows[i][c] =
                        IF RowKey(master.rows[i]) \in DomKeys(d)
                        THEN RowAt(df_dom[d], RowKey(master.rows[i]))[c]
                        ELSE 0

\* Enrolment and demographic tables were merged while the biometric table was
\* empty and skipped, and a master row got a zero where the enrolment table
\* had no row for its key.
C5_Witness ==
    /\ pc = "loaded"
    /\ ~IsEmpty(df_dom.enrol) /\ IsEmpty(df_dom.bio) /\ ~IsEmpty(df_dom.demo)
    /\ df_dom.bio.cols # {}
    /\ Len(master.rows) = 3
    /\ \E i \in DOMAIN master.rows :
          /\ RowKey(master.rows[i]) \notin DomKeys("enrol")
          /\ master.rows[i].enrol_child = 0

\* The end-to-end scenario: one enrolment file with the row ('westbengal ', X,
\* 01-03-2025, enrol_child 10), one biometric file with the row
\* ('West Bengal', X, 01-03-2025, bio_age_5_17 4), no demographic file.
IsScenario ==
    /\ data_dir[Pattern.enrol] =
          <<GoodFile([cols |-> RawCols.enrol,
                      rows |-> <<RawRow("enrol", Some(westbengal_), Some(DistrictX),
                                        Some(<<1, 3, 2025>>), 0, 10, 0)>>])>>
    /\ data_dir[Pattern.bio] =
          <<GoodFile([cols |-> RawCols.bio,
                      rows |-> <<RawRow("bio", Some(WestBengal), Some(DistrictX),
                                        Some(<<1, 3, 2025>>), 0, 4, 0)>>])>>
    /\ data_dir[Pattern.demo] = <<>>

\* C6: compliance ratio.  mbu_compliance of a master row is
\* bio_child / (enrol_child + 1) when the master table has both columns and 0
\* when it lacks one; the scenario gives the single master row of region
\* West Bengal with total_activity 14 and mbu_compliance 4/11.
C6_ComplianceRatio ==
    pc = "loaded" =>
        /\ \A i \in DOMAIN master.rows :
              LET r == master.rows[i]
                  q == r.mbu_compliance
              IN  IF "bio_child" \in master.cols /\ "enrol_child" \in master.cols
                  THEN q[2] > 0 /\ q[1] * (r.enrol_child + 1) = r.bio_child * q[2]
                  ELSE q[1] = 0 /\ q[2] > 0
        /\ IsScenario =>
              /\ Len(master.rows) = 1
              /\ master.rows[1].state = WestBengal
              /\ master.rows[1].total_activity = 14
              /\ master.rows[1].mbu_compliance[1] * 11 = 4 * master.rows[1].mbu_compliance[2]

\* The scenario has run.
C6_Witness ==
    /\ pc = "loaded"
    /\ IsScenario
    /\ master.rows[1].bio_child = 4 /\ master.rows[1].enrol_child = 10

(***************************************************************************)
(* Properties of generate_health_index (Spec)                              *)
(***************************************************************************)
HealthReturned == pc = "loaded" /\ health # Unassigned /\ ~IsRaised(health)

\* The rows of the returned profile with grade g, and their mean total_vol.
GradeRows(g) == {i \in DOMAIN health.rows : health.rows[i].health_grade = g}
GradeMean(g) ==
    <<SumSeq([i \in DOMAIN health.rows |->
                IF i \in GradeRows(g) THEN health.rows[i].total_vol ELSE 0]),
      Cardinality(GradeRows(g))>>

\* C7: cluster label-volume monotonicity.  On a master table of at least 3
\* (region, sub-region) groups, whatever cluster ids the groups were given,
\* generate_health_index returns one row per group, every health_grade is 0,
\* 1 or 2, the risk_category is the label of the grade, and of two grades
\* in the profile the lower one has the lower or equal mean total_vol.
C7_GradeVolumeMonotone ==
    (pc = "loaded" /\ health # Unassigned /\ Len(DistrictGroups(master)) >= 3) =>
        /\ ~IsRaised(health)
        /\ Len(health.rows) = Len(DistrictGroups(master))
        /\ \A i \in DOMAIN health.rows :
              LET r == health.rows[i]
              IN  /\ r.health_grade \in {0, 1, 2}
                  /\ r.health_grade = 0 => r.risk_category = "Critical Risk (High Gap)"
                  /\ r.health_grade = 1 => r.risk_category = "Moderate Risk"
                  /\ r.health_grade = 2 => r.risk_category = "Healthy Ecosystem"
        /\ \A g, h \in {0, 1, 2} :
              (g < h /\ GradeRows(g) # {} /\ GradeRows(h) # {}) =>
                  QuotLeq(GradeMean(g), GradeMean(h))

\* Four groups in three clusters of three different mean volumes, and the
\* cluster of id 0 is the one of the highest volume.
C7_Witness ==
    /\ HealthReturned
    /\ Len(health.rows) = 4
    /\ \A g \in {0, 1, 2} : GradeRows(g) # {}
    /\ QuotLess(GradeMean(0), GradeMean(1)) /\ QuotLess(GradeMean(1), GradeMean(2))
    /\ \E i \in DOMAIN health.rows :
          health.rows[i].cluster = 0 /\ health.rows[i].health_grade = 2

\* No file of the family gives a row.
NoRowsIn(p) ==
    \A i \in DOMAIN data_dir[Pattern[p]] :
        ~data_dir[Pattern[p]][i].ok \/ data_dir[Pattern[p]][i].table.rows = <<>>

\* C9: fatal path.  With all three domains empty load_and_clean_data returns
\* an empty master table; generate_health_index raises on every master table
\* of fewer than 3 (region, sub-region) groups; and nothing else in the
\* pipeline raises: load_and_clean_data returns on every input and
\* generate_health_index returns on 3 groups or more.
C9_OnlyFatalClass ==
    /\ pc # "raised"
    /\ pc = "loaded" =>
          /\ (\A d \in DomainSet : NoRowsIn(d)) => master.rows = <<>>
          /\ health # Unassigned =>
                (IsRaised(health) <=> Len(DistrictGroups(master)) < n_clusters)
          /\ ~IsRaised(top_risk)

(***************************************************************************)
(* SpecGap: analyze_mbu_gap on master tables of GapDistricts districts     *)
(***************************************************************************)
GapDistricts == 11

GapDistrictName(i) == <<"d", LowerLetters[i]>>
GapMonth == <<2025, 3>>

\* The normalised tables of the enrolment and biometric families: district i
\* of West Bengal enrolled 100 and updated 60 when more[i], the other way
\* round when not; with extra, a district of Odisha has the name of the
\* first one.
GapEnrol(more, extra) ==
    [cols |-> group_cols \cup {"enrol_infant", "enrol_child", "enrol_adult"},
     rows |-> [i \in 1..GapDistricts |->
                  [state |-> WestBengal, district |-> GapDistrictName(i), month |-> GapMonth,
                   enrol_infant |-> 0, enrol_child |-> IF more[i] THEN 100 ELSE 60,
                   enrol_adult |-> 0]]
              \o (IF extra
                  THEN <<[state |-> Odisha, district |-> GapDistrictName(1), month |-> GapMonth,
                          enrol_infant |-> 0, enrol_child |-> 100, enrol_adult |-> 0]>>
                  ELSE <<>>)]
GapBio(more, extra) ==
    [cols |-> group_cols \cup {"bio_child", "bio_adult"},
     rows |-> [i \in 1..GapDistricts |->
                  [state |-> WestBengal, district |-> GapDistrictName(i), month |-> GapMonth,
                   bio_child |-> IF more[i] THEN 60 ELSE 100, bio_adult |-> 0]]
              \o (IF extra
                  THEN <<[state |-> Odisha, district |-> GapDistrictName(1), month |-> GapMonth,
                          bio_child |-> 60, bio_adult |-> 0]>>
                  ELSE <<>>)]

InitGap ==
    /\ pc = "loaded"
    /\ \E more \in [1..GapDistricts -> BOOLEAN], extra \in BOOLEAN, bio \in BOOLEAN :
          /\ (~bio) => (\A i \in 1..GapDistricts : more[i]) /\ ~extra
          /\ df_dom = [enrol |-> GapEnrol(more, extra),
                       bio |-> IF bio THEN GapBio(more, extra) ELSE EmptyFrame,
                       demo |-> EmptyFrame]
    /\ master = BuildMaster(df_dom.enrol, df_dom.bio, df_dom.demo)
    /\ health = Unassigned /\ top_risk = Unassigned /\ df_again = Unused
    /\ build = Unused /\ glob_files = Unused /\ loaded = Unused
    /\ prefix = Unused /\ raw = Unused /\ df = Unused /\ data_dir = Unused

NextGap == AnalyzeMbuGapCall
SpecGap == InitGap /\ [][NextGap]_vars

\* The sum of counter c over the master rows of district d, whatever their
\* region.
DistrictSum(d, c) ==
    SumSeq([i \in DOMAIN master.rows |->
              IF master.rows[i].district = d THEN master.rows[i][c] ELSE 0])
DistrictGap(d) == DistrictSum(d, "enrol_child") - DistrictSum(d, "bio_child")
MasterDistricts == {master.rows[i].district : i \in DOMAIN master.rows}

GapReturned == pc = "loaded" /\ top_risk # Unassigned /\ top_risk # Skipped

\* C8: gap sign convention and ranking.  analyze_mbu_gap gives each district
\* name one row at most, whose gap is the sum of enrol_child less the sum of
\* bio_child over the master rows of that name in any region (100 and 60 give
\* 40, 60 and 100 give -40); the rows are in order of non-increasing gap;
\* there are 10 of them, or one per district when the districts are fewer;
\* and no district left out has a gap above one of a row.
C8_GapSignAndRanking ==
    GapReturned =>
        LET rows == top_risk.rows
            ranked == {rows[i].district : i \in DOMAIN rows}
        IN  /\ \A i \in DOMAIN rows :
                  /\ rows[i].district \in MasterDistricts
                  /\ rows[i].gap = DistrictGap(rows[i].district)
                  /\ (rows[i].enrol_child = 100 /\ rows[i].bio_child = 60) => rows[i].gap = 40
                  /\ (rows[i].enrol_child = 60 /\ rows[i].bio_child = 100) => rows[i].gap = 0 - 40
            /\ \A i, j \in DOMAIN rows :
                  /\ i < j => rows[i].gap >= rows[j].gap
                  /\ rows[i].district = rows[j].district => i = j
            /\ Len(rows) <= 10
            /\ Len(rows) = 10 \/ ranked = MasterDistricts
            /\ \A d \in MasterDistricts \ ranked : \A i \in DOMAIN rows :
                  DistrictGap(d) <= rows[i].gap

\* More than 10 districts, of both signs of gap, one of them with rows in two
\* regions; the ranking starts with a gap of 40 or more and leaves a district
\* out.
C8_Witness ==
    /\ GapReturned
    /\ Cardinality(MasterDistricts) > 10
    /\ Len(master.rows) > Cardinality(MasterDistricts)
    /\ \E d \in MasterDistricts : DistrictGap(d) = 0 - 40
    /\ \E i \in DOMAIN top_risk.rows :
          top_risk.rows[i].district = GapDistrictName(1) /\ top_risk.rows[i].gap = 80
    /\ top_risk.rows[2].gap = 40
    /\ top_risk.rows[10].gap = 0 - 40

(***************************************************************************)
(* Properties of load_and_combine_chunks (SpecLoad)                        *)
(***************************************************************************)
\* The files of the glob that pd.read_csv parses.
Parsed == {i \in DOMAIN glob_files : glob_files[i].ok}
AnyRow == UNION {Range(t.rows) : t \in LoadTables}

\* C10: source loader fault tolerance.  load_and_combine_chunks returns a
\* table and raises nothing; each row is in the table as many times as it is
\* in the files that parse, in the order of the files; the table is the
\* empty one when no file parses or none matches.
C10_LoaderFaultTolerance ==
    pc = "load_returned" =>
        /\ ~IsRaised(loaded)
        /\ \A r \in AnyRow :
              Count(loaded.rows, r) =
                  SumSeq([i \in DOMAIN glob_files |->
                            IF i \in Parsed THEN Count(glob_files[i].table.rows, r) ELSE 0])
        /\ Len(loaded.rows) =
              SumSeq([i \in DOMAIN glob_files |->
                        IF i \in Parsed THEN Len(glob_files[i].table.rows) ELSE 0])
        /\ \A i, j \in Parsed : \A a \in DOMAIN glob_files[i].table.rows :
              \A b \in DOMAIN glob_files[j].table.rows :
                 i < j =>
                    \E x, y \in DOMAIN loaded.rows :
                        /\ x < y
                        /\ loaded.rows[x] = glob_files[i].table.rows[a]
                        /\ loaded.rows[y] = glob_files[j].table.rows[b]
        /\ Parsed = {} => loaded = EmptyFrame /\ IsEmpty(loaded)

\* Three files: the first parses, the second holds rows and does not parse,
\* the third parses, and its rows are in the table after those of the first.
C10_Witness ==
    /\ pc = "load_returned"
    /\ Len(glob_files) = 3
    /\ glob_files[1].ok /\ Len(glob_files[1].table.rows) = 1
    /\ ~glob_files[2].ok /\ Len(glob_files[2].table.rows) = 2
    /\ glob_files[3].ok /\ Len(glob_files[3].table.rows) = 2
    /\ Len(loaded.rows) = 3
    /\ loaded.rows[3] = glob_files[3].table.rows[2]

(***************************************************************************)
(* The failure policy of clean_domain_df (SpecClean)                       *)
(***************************************************************************)
\* A malformed raw row: its region is missing or holds a digit, or its date
\* is missing or is no day-month-year date.
Malformed(r) ==
    \/ ~HasRegion(r)
    \/ IsGarbage(r)
    \/ IsNaN(r.date) \/ IsNaN(ParseDayMonthYear(r.date[1]))

\* What clean_domain_df has returned wherever it returns: the empty table
\* as it is; of a non-empty table no malformed row under a key of the output
\* unless a well-formed row has the key, every well-formed row's key in the
\* output, and every counter's total that of the well-formed rows.
PolicyWhereItReturns ==
    pc = "clean_returned" =>
        IF IsEmpty(raw) THEN df = raw
        ELSE LET renamed == RenameColumns(raw, prefix).rows
                 well == {i \in DOMAIN raw.rows : Survives(raw.rows[i])}
             IN  /\ \A i \in well : ~Malformed(raw.rows[i])
                 /\ \A i \in well :
                       \E j \in DOMAIN df.rows : RowKey(df.rows[j]) = TripleOf(raw.rows[i])
                 /\ \A j \in DOMAIN df.rows :
                       \E i \in well : TripleOf(raw.rows[i]) = RowKey(df.rows[j])
                 /\ \A c \in df.cols \ group_cols :
                       SumSeq([j \in DOMAIN df.rows |-> df.rows[j][c]]) =
                           SumSeq([i \in DOMAIN raw.rows |->
                                      IF i \in well THEN renamed[i][c] ELSE 0])

\* C11: normaliser failure policy.  clean_domain_df returns an empty table
\* unchanged; on a non-empty table with malformed rows (a region holding a
\* digit, a missing region, a date that is no day-month-year date) it raises
\* no exception, leaves each malformed row out of the output and aggregates
\* every well-formed row of the table.
C11_NormalizerFailurePolicy ==
    /\ pc # "clean_raised"
    /\ PolicyWhereItReturns

(***************************************************************************)
(* SpecAgain: clean_domain_df on a raw table, then on its own output put   *)
(* back under the raw column names                                         *)
(***************************************************************************)
\* The regions of the raw rows: the aliases of the remap table and the names
\* it maps them to.
AgainStates ==
    <<Westbengal, WestBengal, Orissa, Odisha, Uttaranchal, Uttarakhand, Delhi, NCTOfDelhi>>
AgainDates == <<Date_01_03_2025, Date_15_04_2025>>
AgainMenu(p) ==
    [i \in 1..(Len(AgainStates) * Len(AgainDates)) |->
        RawRow(p, Some(AgainStates[((i - 1) \div Len(AgainDates)) + 1]), Some(DistrictX),
               AgainDates[((i - 1) % Len(AgainDates)) + 1], 2, 10, 1)]

InitAgain ==
    /\ InitIdleClean
    /\ build \in BUILDS
    /\ prefix \in Range(Domains)
    /\ raw \in TablesOver(AgainMenu(prefix), RawCols[prefix], MaxRows)

\* The raw name of a column of the output: rename_map read from right to
\* left, and date for month.
RawName(c, p) ==
    IF c = "month" THEN "date"
    ELSE IF \E old \in DOMAIN rename_map(p) : rename_map(p)[old] = c
    THEN CHOOSE old \in DOMAIN rename_map(p) : rename_map(p)[old] = c
    ELSE c

\* The output table t of clean_domain_df under the raw column names, the month
\* of a row as the first day of that month.
Relabel(t, p) ==
    LET Cell(r, c) ==
            IF c = "month" THEN Some(<<1, r.month[2], r.month[1]>>)
            ELSE IF c \in {"state", "district"} THEN Some(r[c])
            ELSE r[c]
        Row(r) == [n \in {RawName(c, p) : c \in t.cols} |->
                      Cell(r, CHOOSE c \in t.cols : RawName(c, p) = n)]
    IN  [cols |-> {RawName(c, p) : c \in t.cols},
         rows |-> [i \in DOMAIN t.rows |-> Row(t.rows[i])]]

\* clean_domain_df(Relabel(df), prefix), lines 29-62, as one step.
CleanAgainCall ==
    /\ pc = "clean_returned"
    /\ df_again' = [arg |-> Relabel(df, prefix),
                    result |-> CleanDomainDf(Relabel(df, prefix), prefix, build)]
    /\ pc' = "cleaned_again"
    /\ UNCHANGED <<build, glob_files, loaded, prefix, raw, df, data_dir,
                   df_dom, master, health, top_risk>>

NextAgain == CleanDomainDfCall \/ CleanAgainCall
SpecAgain == InitAgain /\ [][NextAgain]_vars

\* C12: idempotence of normalisation.  clean_domain_df run on its own output,
\* re-labelled to the raw shape, returns a table of the same (region,
\* sub-region, month) keys with the same counter totals under each key as the
\* output it was run on.
C12_Idempotent ==
    pc = "cleaned_again" =>
        /\ ~IsRaised(df_again.result)
        /\ Keys(df_again.result) = Keys(df)
        /\ \A k \in Keys(df) \cap Keys(df_again.result) : \A c \in df.cols \ group_cols :
              RowAt(df_again.result, k)[c] = RowAt(df, k)[c]

(***************************************************************************)
(* Single-observation districts in generate_health_index (Spec)            *)
(***************************************************************************)
\* Line 127: the stability_score column of features, a copy of the column of
\* stats with 0 where that one is missing.  stats itself is left as it is.
FeatureStability(row) ==
    IF IsNaN(row.stability_score) THEN [filled |-> 0] ELSE row.stability_score[1]

\* The row of the returned profile for group g, if there is one.
ProfileRows(g) ==
    {i \in DOMAIN health.rows :
        <<health.rows[i].state, health.rows[i].district>> = g}

\* C13: single-observation districts.  The profile generate_health_index
\* returns has a row for every (region, sub-region) group of the master
\* table; for a group of exactly one master row the row's volatility_cv,
\* stability_score and health_index are numbers, none of them missing, and the
\* stability that health_index is computed from is the one of the clustering
\* features.
C13_SingleObservationDefined ==
    HealthReturned =>
        \A g \in Range(DistrictGroups(master)) :
            /\ Cardinality(ProfileRows(g)) = 1
            /\ Len(GroupRows(master, g)) = 1 =>
                  \A i \in ProfileRows(g) :
                      LET r == health.rows[i]
                      IN  IF IsNaN(r.volatility_cv) \/ IsNaN(r.stability_score)
                             \/ IsNaN(r.health_index)
                          THEN FALSE
                          ELSE r.health_index[1].stability_score = FeatureStability(r)

\* The raw rows spelled with alias a or with the name the remap table gives
\* it, dated as raw row i.
SameRegionRows(a, i) ==
    {j \in DOMAIN raw.rows :
        /\ raw.rows[j].state \in {Some(a), Some(state_map[a])}
        /\ raw.rows[j].district = raw.rows[i].district
        /\ raw.rows[j].date = raw.rows[i].date}

\* Raw row i, spelled with the name the remap table gives alias a, and a raw
\* row of the same sub-region and date spelled with a are in one output row,
\* under that name.
SummedUnderCanonical(a, i) ==
    LET renamed == RenameColumns(raw, prefix).rows
    IN  \E k \in DOMAIN df.rows :
            /\ df.rows[k].state = state_map[a]
            /\ Some(df.rows[k].district) = raw.rows[i].district
            /\ Some(df.rows[k].month) = ToPeriodM(ParseDayMonthYear(raw.rows[i].date[1]))
            /\ \A c \in df.cols \ group_cols :
                  df.rows[k][c] =
                      SumSeq([j \in DOMAIN raw.rows |->
                                IF j \in SameRegionRows(a, i) THEN renamed[j][c] ELSE 0])

\* C14: canonical names are fixed points of canonicalisation.  For each name
\* the remap table maps an alias to (West Bengal, Odisha, Uttarakhand, NCT Of
\* Delhi), a raw row spelled with the name and a raw row spelled with the
\* alias, of equal sub-region and month, are summed by clean_domain_df into a
\* single output row under that name.
C14_CanonicalFixedPoints ==
    pc = "clean_returned" =>
        \A a \in DOMAIN state_map : \A i, j \in DOMAIN raw.rows :
            (/\ raw.rows[i].state = Some(state_map[a])
             /\ raw.rows[j].state = Some(a)
             /\ j \in SameRegionRows(a, i)) => SummedUnderCanonical(a, i)

====
